---- MODULE Spec2Model ----
(***************************************************************************)
(* Model of the offline RIPE allocation database (ip-alloc-lookup):        *)
(* the delegated-statistics parser (src/lib.rs), the build-time table      *)
(* generator (build.rs) and the range database with its binary-search      *)
(* lookups (src/database.rs).                                              *)
(*                                                                         *)
(* Text is modelled at character level: a text is a sequence of one-       *)
(* character strings, so that lines(), split('|'), starts_with, contains   *)
(* and the numeric parsers are computed as the code computes them.         *)
(* The integer types are scaled: u32 is U32Bits wide and u128 is U128Bits  *)
(* wide, with the same saturating / wrapping behaviour at the ceiling.     *)
(***************************************************************************)
EXTENDS Integers, Sequences, FiniteSets, TLC

\* ------------------------------------------------------------------------
\* Bounds of the model
\* ------------------------------------------------------------------------

\* Width in bits of the scaled u32 (IPv4 addresses, the count / prefix field).
U32Bits == 3

\* Width in bits of the scaled u128 (IPv6 addresses, address counts).
U128Bits == 4

\* Largest number of lines in an input text.
MaxLines == 2

RECURSIVE Pow2(_)
Pow2(n) == IF n = 0 THEN 1 ELSE 2 * Pow2(n - 1)

U32Max == Pow2(U32Bits) - 1
U128Max == Pow2(U128Bits) - 1

\* ------------------------------------------------------------------------
\* Option values
\* ------------------------------------------------------------------------

None == <<"None">>
Some(v) == <<"Some", v>>
IsSome(o) == o[1] = "Some"
Unwrap(o) == o[2]

\* ------------------------------------------------------------------------
\* Integer arithmetic of the fixed-width types
\* ------------------------------------------------------------------------

saturating_add(a, b, max) == IF a + b > max THEN max ELSE a + b
saturating_sub(a, b) == IF a < b THEN 0 ELSE a - b

\* `x as u32`: truncation to the low bits.
as_u32(x) == x % (U32Max + 1)

\* ------------------------------------------------------------------------
\* Text primitives (std::str)
\* ------------------------------------------------------------------------

\* A byte that is not part of any valid UTF-8 text.
BadByte == "\\xFF"

\* The position of the first sep after position p, Len(s) + 1 when none.
next_sep(s, sep, p) ==
    CHOOSE q \in (p + 1)..(Len(s) + 1) :
        /\ q = Len(s) + 1 \/ s[q] = sep
        /\ \A j \in (p + 1)..(q - 1) : s[j] # sep

RECURSIVE split_from(_, _, _)
\* The pieces of s after position p.
split_from(s, sep, p) ==
    LET q == next_sep(s, sep, p)
    IN  IF q > Len(s) THEN <<SubSeq(s, p + 1, Len(s))>>
        ELSE <<SubSeq(s, p + 1, q - 1)>> \o split_from(s, sep, q)

\* str::split(sep): the pieces between the separators, at least one piece.
split(s, sep) == split_from(s, sep, 0)

\* str::lines: split on "\n", no final empty line, a trailing "\r" stripped.
lines(content) ==
    LET raw == split(content, "\n")
        cut == IF raw[Len(raw)] = <<>> THEN SubSeq(raw, 1, Len(raw) - 1) ELSE raw
        strip(l) == IF Len(l) > 0 /\ l[Len(l)] = "\r" THEN SubSeq(l, 1, Len(l) - 1) ELSE l
    IN  SubSeq([i \in 1..Len(cut) |-> strip(cut[i])], 1, Len(cut))

starts_with(s, ch) == Len(s) > 0 /\ s[1] = ch

contains(s, pat) ==
    \E i \in 1..(Len(s) - Len(pat) + 1) : SubSeq(s, i, i + Len(pat) - 1) = pat

valid_utf8(bytes) == \A i \in 1..Len(bytes) : bytes[i] # BadByte

Digits == <<"0", "1", "2", "3", "4", "5", "6", "7", "8", "9">>
IsDigit(c) == \E d \in 1..10 : Digits[d] = c
DigitVal(c) == (CHOOSE d \in 1..10 : Digits[d] = c) - 1

\* One more digit d after the value hi, stopping at max + 1.
push_digit(hi, d, max) == IF hi > max \/ 10 * hi + d > max THEN max + 1 ELSE 10 * hi + d

RECURSIVE DecValue(_, _)
\* Value of a digit string, max + 1 once the value exceeds max.
DecValue(s, max) ==
    IF s = <<>> THEN 0
    ELSE push_digit(DecValue(SubSeq(s, 1, Len(s) - 1), max), DigitVal(s[Len(s)]), max)

\* The value if it fits the type.
checked(v, max) == IF v > max THEN None ELSE Some(v)

\* The digits of <unsigned integer>::from_str: one or more, value within max.
parse_digits(body, max) ==
    IF body = <<>> \/ \E i \in 1..Len(body) : ~IsDigit(body[i])
    THEN None
    ELSE checked(DecValue(body, max), max)

\* <unsigned integer>::from_str: an optional "+", then the digits.
parse_uint(s, max) == parse_digits(IF starts_with(s, "+") THEN Tail(s) ELSE s, max)

parse_u32(s) == parse_uint(s, U32Max)

\* Address text, scaled: an IPv4 address is U32Bits groups separated by ".",
\* an IPv6 address U128Bits groups separated by ":", each group one binary
\* digit, most significant first.
RECURSIVE GroupsValue(_)
GroupsValue(gs) ==
    IF gs = <<>> THEN 0
    ELSE 2 * GroupsValue(SubSeq(gs, 1, Len(gs) - 1)) + DigitVal(gs[Len(gs)][1])

\* The address of the groups, if there are as many as the width has bits.
addr_of_groups(gs, bits) ==
    IF Len(gs) = bits /\ \A i \in 1..Len(gs) : gs[i] \in {<<"0">>, <<"1">>}
    THEN Some(GroupsValue(gs))
    ELSE None

parse_addr(s, sep, bits) == addr_of_groups(split(s, sep), bits)

parse_Ipv4Addr(s) == parse_addr(s, ".", U32Bits)
parse_Ipv6Addr(s) == parse_addr(s, ":", U128Bits)

\* ------------------------------------------------------------------------
\* Record parser (src/lib.rs)
\* ------------------------------------------------------------------------

IPV4_TAG == <<"i", "p", "v", "4">>
IPV6_TAG == <<"i", "p", "v", "6">>

IpRange(v4, v6, n, cc) == [start_v4 |-> v4, start_v6 |-> v6, count |-> n, country |-> cc]

\* The filter without the test for header lines starting with "2".
line_filter_keeps_headers(line) ==
    /\ ~starts_with(line, "#")
    /\ (contains(line, IPV4_TAG) \/ contains(line, IPV6_TAG))

\* The .filter closure of parse_ripe_delegated.
line_filter(line) ==
    /\ ~starts_with(line, "#")
    /\ ~starts_with(line, "2")
    /\ (contains(line, IPV4_TAG) \/ contains(line, IPV6_TAG))

\* `128 - prefix_len` on u32: with overflow checks (debug builds) a larger
\* prefix_len panics, without them (release builds) the result wraps.
WouldUnderflow(prefix_len) == prefix_len > U128Bits
host_bits_of(prefix_len) == (U128Bits + (U32Max + 1) - prefix_len) % (U32Max + 1)

\* The address count without the saturation at prefix length 0: the shift
\* keeps the low bits only.
count_of_host_bits_shift_only(host_bits) == Pow2(host_bits) % (U128Max + 1)

\* The count for a number of host bits (the if / else of lib.rs).
count_of_host_bits(host_bits) ==
    IF host_bits >= U128Bits THEN U128Max ELSE Pow2(host_bits)

\* The address count of an IPv6 prefix.
prefix_count(prefix_len) == count_of_host_bits(host_bits_of(prefix_len))

Panic == <<"Panic">>

\* The ipv4 branch, given the parsed start (an Option) and count (an Option).
map_v4(start, count, country) ==
    IF ~IsSome(count) THEN None
    ELSE Some(IpRange(start, None, Unwrap(count), country))

\* The ipv6 branch, given the parsed start and prefix length (Options).
map_v6(start, prefix_len, country, overflow_checks) ==
    IF ~IsSome(prefix_len) THEN None
    ELSE IF overflow_checks /\ WouldUnderflow(Unwrap(prefix_len)) THEN Panic
    ELSE Some(IpRange(None, start, prefix_count(Unwrap(prefix_len)), country))

\* The branches on ip_type.
map_fields(ip_type, country, start_str, count_str, overflow_checks) ==
    IF ip_type = IPV4_TAG
    THEN map_v4(parse_Ipv4Addr(start_str), parse_u32(count_str), country)
    ELSE IF ip_type = IPV6_TAG
    THEN map_v6(parse_Ipv6Addr(start_str), parse_u32(count_str), country, overflow_checks)
    ELSE None

\* The closure body after the split.
map_parts(parts, overflow_checks) ==
    IF Len(parts) < 7 THEN None
    ELSE map_fields(parts[3], parts[2], parts[4], parts[5], overflow_checks)

\* The .filter_map closure of parse_ripe_delegated: None, Some(r) or Panic.
line_map(line, overflow_checks) == map_parts(split(line, "|"), overflow_checks)

\* What the iterator chain yields for one line.
line_item(line, overflow_checks) ==
    IF line_filter(line) THEN line_map(line, overflow_checks) ELSE None

\* The records collected so far, with one more item.
collect_item(front, m) ==
    IF front.panicked \/ m = Panic
    THEN [panicked |-> TRUE, ranges |-> <<>>]
    ELSE IF IsSome(m)
    THEN [panicked |-> FALSE, ranges |-> Append(front.ranges, Unwrap(m))]
    ELSE front

RECURSIVE collect(_, _)
\* Runs the iterator chain over the lines, in order, up to a panic.
collect(ls, overflow_checks) ==
    IF ls = <<>> THEN [panicked |-> FALSE, ranges |-> <<>>]
    ELSE collect_item(collect(SubSeq(ls, 1, Len(ls) - 1), overflow_checks),
                      line_item(ls[Len(ls)], overflow_checks))

parse_ripe_delegated(content, overflow_checks) == collect(lines(content), overflow_checks)

\* ------------------------------------------------------------------------
\* Classification policy (src/database.rs)
\* ------------------------------------------------------------------------

Region ==
    [EuropeanUnion |-> 1, EuropeNonEu |-> 2, EasternEurope |-> 3, Turkey |-> 4,
     MiddleEast |-> 5, NorthAfrica |-> 6, CentralAsia |-> 7, GulfStates |-> 8,
     Other |-> 255]

EU_COUNTRIES ==
    { <<"A", "T">>, <<"B", "E">>, <<"B", "G">>, <<"H", "R">>,
      <<"C", "Y">>, <<"C", "Z">>, <<"D", "K">>, <<"E", "E">>,
      <<"F", "I">>, <<"F", "R">>, <<"D", "E">>, <<"G", "R">>,
      <<"H", "U">>, <<"I", "E">>, <<"I", "T">>, <<"L", "V">>,
      <<"L", "T">>, <<"L", "U">>, <<"M", "T">>, <<"N", "L">>,
      <<"P", "L">>, <<"P", "T">>, <<"R", "O">>, <<"S", "K">>,
      <<"S", "I">>, <<"E", "S">>, <<"S", "E">> }

determine_region(country_code) ==
    IF country_code \in EU_COUNTRIES THEN Region.EuropeanUnion
    ELSE IF country_code \in { <<"G", "B">>, <<"N", "O">>, <<"C", "H">>, <<"I", "S">>,
                              <<"L", "I">> }
    THEN Region.EuropeNonEu
    ELSE IF country_code \in { <<"R", "U">>, <<"U", "A">>, <<"B", "Y">>, <<"M", "D">> }
    THEN Region.EasternEurope
    ELSE IF country_code = <<"T", "R">>
    THEN Region.Turkey
    ELSE IF country_code \in { <<"I", "L">>, <<"P", "S">> }
    THEN Region.MiddleEast
    ELSE IF country_code \in { <<"E", "G">>, <<"T", "N">>, <<"M", "A">>, <<"D", "Z">> }
    THEN Region.NorthAfrica
    ELSE IF country_code \in { <<"K", "Z">>, <<"U", "Z">>, <<"T", "M">>, <<"K", "G">>,
                              <<"T", "J">> }
    THEN Region.CentralAsia
    ELSE IF country_code \in { <<"A", "E">>, <<"S", "A">>, <<"Q", "A">>, <<"K", "W">>,
                              <<"B", "H">>, <<"O", "M">> }
    THEN Region.GulfStates
    ELSE Region.Other

cc2(country) ==
    IF Len(country) >= 2 THEN <<country[1], country[2]>> ELSE <<"?", "?">>

\* A GeoInfo whose flag is never set.
GeoInfo_never_eu(country) ==
    [country_code |-> cc2(country),
     is_eu |-> FALSE,
     region |-> determine_region(country)]

\* The GeoInfo both constructors build for a country string.
GeoInfo(country) ==
    [country_code |-> cc2(country),
     is_eu |-> country \in EU_COUNTRIES,
     region |-> determine_region(country)]

\* ------------------------------------------------------------------------
\* Range table builder (src/database.rs, build.rs)
\* ------------------------------------------------------------------------

\* Number of entries of a table whose start is at most k.
CountLeq(seq, k) == Cardinality({i \in 1..Len(seq) : seq[i][1] <= k})

\* A builder that leaves the entries in input order.
sort_by_key_skipped(seq) == seq

\* An entry put after the entries of a sorted table that are not above it.
sort_insert(front, e, k) == SubSeq(front, 1, k) \o <<e>> \o SubSeq(front, k + 1, Len(front))

\* The place of an entry in a sorted table: after its equals (a stable sort).
sort_place(front, e) == sort_insert(front, e, CountLeq(front, e[1]))

RECURSIVE sort_by_key(_)
\* slice::sort_by_key(|r| r.0): a stable sort by the first component.
sort_by_key(seq) ==
    IF seq = <<>> THEN <<>>
    ELSE sort_place(sort_by_key(SubSeq(seq, 1, Len(seq) - 1)), seq[Len(seq)])

\* The IPv4 end address with wrapping instead of saturating addition.
v4_end_wrapping(start, count) == (start + saturating_sub(as_u32(count), 1)) % (U32Max + 1)

\* The end address from_ripe_delegated_str computes for an IPv4 record.
v4_end(start, count) == saturating_add(start, saturating_sub(as_u32(count), 1), U32Max)

\* The end address from_ripe_delegated_str computes for an IPv6 record.
v6_end(start, count) == saturating_add(start, saturating_sub(count, 1), U128Max)

\* One iteration of the loop over the parsed records, on v4_ranges.
push_v4_step(front, r) ==
    IF IsSome(r.start_v4)
    THEN Append(front, <<Unwrap(r.start_v4), v4_end(Unwrap(r.start_v4), r.count),
                         GeoInfo(r.country)>>)
    ELSE front

RECURSIVE push_v4(_)
\* The v4_ranges.push calls of the loop over the parsed records, in order.
push_v4(parsed) ==
    IF parsed = <<>> THEN <<>>
    ELSE push_v4_step(push_v4(SubSeq(parsed, 1, Len(parsed) - 1)), parsed[Len(parsed)])

\* One iteration of the loop over the parsed records, on v6_ranges.
push_v6_step(front, r) ==
    IF ~IsSome(r.start_v4) /\ IsSome(r.start_v6)
    THEN Append(front, <<Unwrap(r.start_v6), v6_end(Unwrap(r.start_v6), r.count),
                         GeoInfo(r.country)>>)
    ELSE front

RECURSIVE push_v6(_)
\* The v6_ranges.push calls of the loop over the parsed records, in order.
push_v6(parsed) ==
    IF parsed = <<>> THEN <<>>
    ELSE push_v6_step(push_v6(SubSeq(parsed, 1, Len(parsed) - 1)), parsed[Len(parsed)])

\* The tables from_ripe_delegated_str builds from the parser's result.
build_tables(p) ==
    [panicked |-> p.panicked,
     parsed |-> p.ranges,
     v4_ranges |-> sort_by_key(push_v4(p.ranges)),
     v6_ranges |-> sort_by_key(push_v6(p.ranges))]

\* GeoIpDb::from_ripe_delegated_str, with the records it parsed.
from_ripe_delegated_str(content, overflow_checks) ==
    build_tables(parse_ripe_delegated(content, overflow_checks))

Skip == <<"skip">>

\* The ipv4 branch of build.rs, given the parsed start and count (Options).
build_v4(start, count, country) ==
    IF IsSome(start) /\ IsSome(count) /\ Unwrap(count) # 0
    THEN <<"v4", Unwrap(start), Unwrap(count), country>>
    ELSE Skip

\* The end address build.rs computes for an IPv6 record.
build_v6_end(start_u128, count) ==
    saturating_sub(saturating_add(start_u128, count, U128Max), 1)

\* The ipv6 branch of build.rs, given the parsed start and prefix length.
build_v6(start, prefix_len, country, overflow_checks) ==
    IF IsSome(start) /\ IsSome(prefix_len)
    THEN IF overflow_checks /\ WouldUnderflow(Unwrap(prefix_len))
         THEN Panic
         ELSE <<"v6", Unwrap(start),
                build_v6_end(Unwrap(start), prefix_count(Unwrap(prefix_len))), country>>
    ELSE Skip

\* The branches of build.rs on ip_type.
build_fields(ip_type, country, start_str, count_str, overflow_checks) ==
    IF ip_type = IPV4_TAG
    THEN build_v4(parse_Ipv4Addr(start_str), parse_u32(count_str), country)
    ELSE IF ip_type = IPV6_TAG
    THEN build_v6(parse_Ipv6Addr(start_str), parse_u32(count_str), country, overflow_checks)
    ELSE Skip

\* The loop body of build.rs after the split.
build_parts(parts, overflow_checks) ==
    IF Len(parts) < 7 THEN Skip
    ELSE build_fields(parts[3], parts[2], parts[4], parts[5], overflow_checks)

\* The per-line step of build.rs parse_ripe_data: what the line pushes.
\* Skip, <<"v4", start, count, country>>, <<"v6", start, end, country>>
\* or Panic.
build_line(line, overflow_checks) ==
    IF starts_with(line, "#") \/ starts_with(line, "2") THEN Skip
    ELSE build_parts(split(line, "|"), overflow_checks)

\* One iteration of the loop of parse_ripe_data.
build_step(front, b) ==
    IF front.panicked \/ b = Panic
    THEN [panicked |-> TRUE, v4_ranges |-> <<>>, v6_ranges |-> <<>>]
    ELSE IF b[1] = "v4"
    THEN [front EXCEPT !.v4_ranges = Append(@, <<b[2], b[3], b[4]>>)]
    ELSE IF b[1] = "v6"
    THEN [front EXCEPT !.v6_ranges = Append(@, <<b[2], b[3], b[4]>>)]
    ELSE front

RECURSIVE build_loop(_, _)
\* The loop of parse_ripe_data over the lines, before the sorts.
build_loop(ls, overflow_checks) ==
    IF ls = <<>> THEN [panicked |-> FALSE, v4_ranges |-> <<>>, v6_ranges |-> <<>>]
    ELSE build_step(build_loop(SubSeq(ls, 1, Len(ls) - 1), overflow_checks),
                    build_line(ls[Len(ls)], overflow_checks))

\* The two sorts at the end of parse_ripe_data.
sorted_ranges(r) ==
    [panicked |-> r.panicked,
     v4_ranges |-> sort_by_key(r.v4_ranges),
     v6_ranges |-> sort_by_key(r.v6_ranges)]

\* build.rs parse_ripe_data: (start, count, country) and (start, end, country),
\* each sorted by start.
parse_ripe_data(content, overflow_checks) ==
    sorted_ranges(build_loop(lines(content), overflow_checks))

\* One iteration of the loop of build.rs main that writes IPV4_RANGES.
emit_v4_step(front, start, count, country) ==
    IF count = 0 THEN front
    ELSE Append(front, <<start, saturating_add(start, saturating_sub(count, 1), U32Max),
                         country>>)

RECURSIVE emit_v4(_)
\* The loop of build.rs main that writes IPV4_RANGES.
emit_v4(v4) ==
    IF v4 = <<>> THEN <<>>
    ELSE emit_v4_step(emit_v4(SubSeq(v4, 1, Len(v4) - 1)),
                      v4[Len(v4)][1], v4[Len(v4)][2], v4[Len(v4)][3])

\* The constants build.rs main writes from the sorted ranges.
emit(r) ==
    [panicked |-> r.panicked,
     IPV4_RANGES |-> emit_v4(r.v4_ranges),
     IPV6_RANGES |-> r.v6_ranges]

\* The generated constants IPV4_RANGES and IPV6_RANGES for a ripe-data.txt.
generated_data(content, overflow_checks) == emit(parse_ripe_data(content, overflow_checks))

\* The loops of GeoIpDb::new over a generated table.
new_ranges(table) ==
    [i \in 1..Len(table) |-> <<table[i][1], table[i][2], GeoInfo(table[i][3])>>]

\* ------------------------------------------------------------------------
\* Lookup engine (src/database.rs)
\* ------------------------------------------------------------------------

\* Table indices are the code's: entry i of the code is ranges[i + 1].
start_at(ranges, i) == ranges[i + 1][1]
end_at(ranges, i) == ranges[i + 1][2]
geo_at(ranges, i) == ranges[i + 1][3]

\* slice::binary_search_by_key on a table sorted by start: Ok(i) for any i
\* whose start is the key, else Err(insertion point).
binary_search_by_key(ranges, key) ==
    IF \E i \in 0..(Len(ranges) - 1) : start_at(ranges, i) = key
    THEN {<<"Ok", i>> : i \in {j \in 0..(Len(ranges) - 1) : start_at(ranges, j) = key}}
    ELSE {<<"Err", Cardinality({j \in 0..(Len(ranges) - 1) : start_at(ranges, j) < key})>>}

\* lookup_v4 without the test of the predecessor's end.
lookup_v4_arm_no_end_test(ranges, ip_u32, found) ==
    IF found[1] = "Ok"
    THEN [res |-> Some(geo_at(ranges, found[2])), reads |-> {found[2]}]
    ELSE IF found[2] > 0
    THEN [res |-> Some(geo_at(ranges, found[2] - 1)), reads |-> {found[2] - 1}]
    ELSE [res |-> None, reads |-> {}]

\* The match arms of lookup_v4 for one result of the binary search: the
\* value returned and the table indices lookup_v4 itself reads.
lookup_v4_arm(ranges, ip_u32, found) ==
    IF found[1] = "Ok"
    THEN [res |-> Some(geo_at(ranges, found[2])), reads |-> {found[2]}]
    ELSE IF found[2] > 0
    THEN [res |-> IF ip_u32 >= start_at(ranges, found[2] - 1)
                     /\ ip_u32 <= end_at(ranges, found[2] - 1)
                  THEN Some(geo_at(ranges, found[2] - 1))
                  ELSE None,
          reads |-> {found[2] - 1}]
    ELSE [res |-> None, reads |-> {}]

\* The outcomes of GeoIpDb::lookup_v4.
lookup_v4(ranges, ip_u32) ==
    {lookup_v4_arm(ranges, ip_u32, found) : found \in binary_search_by_key(ranges, ip_u32)}

RECURSIVE upper_bound(_, _, _, _, _)
\* The while loop of lookup_v6: the final lo and the indices probed.
upper_bound(ranges, ip_u128, lo, hi, reads) ==
    IF lo < hi
    THEN LET mid == lo + (hi - lo) \div 2
         IN  IF ip_u128 < start_at(ranges, mid)
             THEN upper_bound(ranges, ip_u128, lo, mid, reads \cup {mid})
             ELSE upper_bound(ranges, ip_u128, mid + 1, hi, reads \cup {mid})
    ELSE [lo |-> lo, reads |-> reads]

\* lookup_v6 after the while loop, given the loop's result.
lookup_v6_tail(ranges, ip_u128, ub) ==
    IF ub.lo = 0 THEN [res |-> None, reads |-> ub.reads]
    ELSE [res |-> IF ip_u128 >= start_at(ranges, ub.lo - 1)
                     /\ ip_u128 <= end_at(ranges, ub.lo - 1)
                  THEN Some(geo_at(ranges, ub.lo - 1))
                  ELSE None,
          reads |-> ub.reads \cup {ub.lo - 1}]

\* GeoIpDb::lookup_v6: the value returned and the table indices read.
lookup_v6(ranges, ip_u128) ==
    IF Len(ranges) = 0 THEN [res |-> None, reads |-> {}]
    ELSE lookup_v6_tail(ranges, ip_u128, upper_bound(ranges, ip_u128, 0, Len(ranges), {}))

\* ------------------------------------------------------------------------
\* Input texts
\* ------------------------------------------------------------------------

RECURSIVE join(_, _)
join(fields, sep) ==
    IF Len(fields) = 1 THEN fields[1]
    ELSE join(SubSeq(fields, 1, Len(fields) - 1), sep) \o <<sep>> \o fields[Len(fields)]

RECURSIVE dec_text(_)
\* Display of an unsigned integer.
dec_text(n) ==
    IF n < 10 THEN <<Digits[n + 1]>>
    ELSE dec_text(n \div 10) \o <<Digits[(n % 10) + 1]>>

\* Display of an address: the groups of parse_addr, most significant first.
addr_text(n, sep, bits) ==
    join([i \in 1..bits |-> <<Digits[((n \div Pow2(bits - i)) % 2) + 1]>>], sep)

V4Text(n) == addr_text(n, ".", U32Bits)
V6Text(n) == addr_text(n, ":", U128Bits)

REGISTRY == <<"r">>
DATE == <<"d">>
STATUS == <<"s">>
ASN_TAG == <<"a", "s", "n">>
DE == <<"D", "E">>
GB == <<"G", "B">>
US == <<"U", "S">>
GARBLED == <<"x">>

\* A line of the delegated format: registry|country|family|start|count|date|status.
Line7(registry, cc, family, start, count) ==
    join(<<registry, cc, family, start, count, DATE, STATUS>>, "|")

\* Well-formed ipv4 lines <<country, start, count>>: blocks that overlap or
\* share a start, a block whose end passes the ceiling, and a block of count 0.
V4Blocks ==
    { <<DE, 0, 2>>, <<GB, 0, 1>>, <<GB, 1, 3>>,
      <<US, U32Max - 1, U32Max>>, <<DE, 2, 0>> }

\* Well-formed ipv6 lines <<country, start, prefix length>>, with prefix
\* lengths 0, the full width, in between, and one past the width.
V6Blocks ==
    { <<DE, 0, U128Bits - 1>>, <<GB, 0, 0>>, <<US, U128Max, U128Bits - 1>>,
      <<DE, 2, U128Bits>>, <<DE, 8, U128Bits + 1>> }

V4Lines == {Line7(REGISTRY, b[1], IPV4_TAG, V4Text(b[2]), dec_text(b[3])) : b \in V4Blocks}
V6Lines == {Line7(REGISTRY, b[1], IPV6_TAG, V6Text(b[2]), dec_text(b[3])) : b \in V6Blocks}

\* Lines that are no allocation record, or a garbled one: a comment, a
\* header, a line of six fields, another family, a count that does not fit
\* u32, an unparsable start (with a count written "+1"), an unparsable
\* prefix length, a CRLF-terminated line, and a line that is not UTF-8.
OtherLines ==
    { <<"#">> \o Line7(REGISTRY, DE, IPV4_TAG, V4Text(3), dec_text(1)),
      Line7(<<"2">>, DE, IPV4_TAG, V4Text(3), dec_text(1)),
      join(<<REGISTRY, DE, IPV4_TAG, V4Text(3), dec_text(1), DATE>>, "|"),
      Line7(REGISTRY, DE, ASN_TAG, dec_text(1), dec_text(1)),
      Line7(REGISTRY, DE, IPV4_TAG, V4Text(3), dec_text(U32Max + 1)),
      Line7(REGISTRY, DE, IPV4_TAG, GARBLED, <<"+">> \o dec_text(1)),
      Line7(REGISTRY, DE, IPV6_TAG, V6Text(3), GARBLED),
      Line7(REGISTRY, DE, IPV6_TAG, GARBLED, dec_text(U128Bits)),
      Line7(REGISTRY, DE, IPV4_TAG, V4Text(5), dec_text(1)) \o <<"\r">>,
      <<BadByte>> }

LineVocabulary == V4Lines \cup V6Lines \cup OtherLines

RECURSIVE Text(_)
\* The text made of the given lines, each ended by a newline.
Text(ls) ==
    IF ls = <<>> THEN <<>>
    ELSE Text(SubSeq(ls, 1, Len(ls) - 1)) \o ls[Len(ls)] \o <<"\n">>

Texts == {Text(ls) : ls \in UNION {[1..n -> LineVocabulary] : n \in 0..MaxLines}}

\* A source is a path to read: unreadable, or holding bytes.
Sources ==
    {[readable |-> FALSE, bytes |-> <<>>]} \cup {[readable |-> TRUE, bytes |-> t] : t \in Texts}

\* ------------------------------------------------------------------------
\* State
\* ------------------------------------------------------------------------

VARIABLES
    source,     \* the snapshot: ripe-data.txt at build time, the text or file at run time
    ctor,       \* the entry point that was called: "none", "parse", "new", "str", "file"
    outcome,    \* how it ended: "none", "ok", "err" (io::Error), "panic", "build_panic"
    parsed,     \* the Vec<IpRange> returned by parse_ripe_delegated
    v4_ranges,  \* GeoIpDb.v4_ranges
    v6_ranges,  \* GeoIpDb.v6_ranges
    lk,         \* the last lookup: family, address, value returned, indices read
    cache_path, \* the cache_path argument of the cache functions
    std_search, \* which of several equal keys the build's binary search finds
    dir,        \* the directory: the file each path names, or NoFile
    files,      \* the bytes each file holds
    upd,        \* the update_cache_from_url run: position, body, open file, return
                \* value, and what the cache path held when it was called
    rd,         \* the from_ripe_delegated_file run: position, open file, bytes read,
                \* and whether it began after an update had returned Ok
    call,       \* the last call on the constructed database and what it returned
    other       \* a second update_cache_from_url run on the same cache_path, the
                \* one the scheduler is not running; upd is the one it runs

dbvars == <<source, ctor, outcome, parsed, v4_ranges, v6_ranges, lk>>
cachevars == <<cache_path, std_search, dir, files, upd, rd, call, other>>
vars == <<source, ctor, outcome, parsed, v4_ranges, v6_ranges, lk,
          cache_path, std_search, dir, files, upd, rd, call, other>>

NoLookup == [fam |-> "none", ip |-> 0, res |-> None, reads |-> {}]

\* A path of stem and extension.
Path(stem, ext) == [stem |-> stem, ext |-> ext]

\* Path::with_extension: the same stem, the extension replaced.
with_extension(path, ext) == [path EXCEPT !.ext = ext]

NoFile == "none"
NoCall == [op |-> "none", ip |-> <<"none", 0>>, ret |-> None, again |-> FALSE]
UpdIdle ==
    [pc |-> "idle", bytes |-> <<>>, f |-> NoFile, pos |-> 0, ret |-> None, before |-> None]
RdIdle == [pc |-> "idle", fn |-> "none", f |-> NoFile, content |-> None, after_ok |-> FALSE]

\* No cache function is in use.
NoCache ==
    /\ cache_path = Path("", "")
    /\ std_search = "any"
    /\ dir = <<>>
    /\ files = <<>>
    /\ upd = UpdIdle
    /\ rd = RdIdle
    /\ call = NoCall
    /\ other = UpdIdle

IsText(src) == src.readable /\ valid_utf8(src.bytes)

Init ==
    /\ source \in Sources
    /\ ctor = "none"
    /\ outcome = "none"
    /\ parsed = <<>>
    /\ v4_ranges = <<>>
    /\ v6_ranges = <<>>
    /\ lk = NoLookup
    /\ NoCache

\* The state a call of parse_ripe_delegated leaves, given what it computed.
Returned(p) ==
    /\ outcome' = IF p.panicked THEN "panic" ELSE "ok"
    /\ parsed' = p.ranges

\* parse_ripe_delegated(content), called directly.
ParseRipeDelegated ==
    /\ ctor = "none"
    /\ IsText(source)
    /\ \E overflow_checks \in BOOLEAN :
          Returned(parse_ripe_delegated(source.bytes, overflow_checks))
    /\ ctor' = "parse"
    /\ UNCHANGED <<source, v4_ranges, v6_ranges, lk>>
    /\ UNCHANGED cachevars

\* The database a constructor leaves, given the tables it computed.
Constructed(db) ==
    /\ outcome' = IF db.panicked THEN "panic" ELSE "ok"
    /\ parsed' = db.parsed
    /\ v4_ranges' = IF db.panicked THEN <<>> ELSE db.v4_ranges
    /\ v6_ranges' = IF db.panicked THEN <<>> ELSE db.v6_ranges

\* The state GeoIpDb::from_ripe_delegated_str(content) leaves.
BuiltFromStr(content, overflow_checks) ==
    Constructed(from_ripe_delegated_str(content, overflow_checks))

\* GeoIpDb::from_ripe_delegated_str(content).
FromRipeDelegatedStr ==
    /\ ctor = "none"
    /\ IsText(source)
    /\ \E overflow_checks \in BOOLEAN : BuiltFromStr(source.bytes, overflow_checks)
    /\ ctor' = "str"
    /\ UNCHANGED <<source, lk>>
    /\ UNCHANGED cachevars

\* GeoIpDb::from_ripe_delegated_file(path): fs::read_to_string fails on a
\* path that cannot be read and on bytes that are not UTF-8.
FromRipeDelegatedFile ==
    /\ ctor = "none"
    /\ IF IsText(source)
       THEN \E overflow_checks \in BOOLEAN : BuiltFromStr(source.bytes, overflow_checks)
       ELSE /\ outcome' = "err"
            /\ UNCHANGED <<parsed, v4_ranges, v6_ranges>>
    /\ ctor' = "file"
    /\ UNCHANGED <<source, lk>>
    /\ UNCHANGED cachevars

\* The database GeoIpDb::new() leaves over the generated constants g.
Embedded(g) ==
    /\ outcome' = IF g.panicked THEN "build_panic" ELSE "ok"
    /\ v4_ranges' = IF g.panicked THEN <<>> ELSE new_ranges(g.IPV4_RANGES)
    /\ v6_ranges' = IF g.panicked THEN <<>> ELSE new_ranges(g.IPV6_RANGES)

\* GeoIpDb::new() over the tables build.rs generated from the snapshot.
New ==
    /\ ctor = "none"
    /\ IsText(source)
    /\ \E overflow_checks \in BOOLEAN :
          Embedded(generated_data(source.bytes, overflow_checks))
    /\ ctor' = "new"
    /\ UNCHANGED <<source, parsed, lk>>
    /\ UNCHANGED cachevars

HasDb == ctor \in {"new", "str", "file"} /\ outcome = "ok"

\* A run looks one address up: lookups leave the database as it is, so a
\* later lookup finds the state an only lookup finds.
CanLookup == HasDb /\ lk = NoLookup

\* The record of a lookup of ip that came out as r.
Looked(fam, ip, r) == lk' = [fam |-> fam, ip |-> ip, res |-> r.res, reads |-> r.reads]

\* db.lookup_v4(ip).
LookupV4 ==
    /\ CanLookup
    /\ \E ip \in 0..U32Max :
          \E r \in lookup_v4(v4_ranges, ip) : Looked("v4", ip, r)
    /\ UNCHANGED <<source, ctor, outcome, parsed, v4_ranges, v6_ranges>>
    /\ UNCHANGED cachevars

\* db.lookup_v6(ip).
LookupV6 ==
    /\ CanLookup
    /\ \E ip \in 0..U128Max : Looked("v6", ip, lookup_v6(v6_ranges, ip))
    /\ UNCHANGED <<source, ctor, outcome, parsed, v4_ranges, v6_ranges>>
    /\ UNCHANGED cachevars

Next ==
    \/ ParseRipeDelegated
    \/ FromRipeDelegatedStr
    \/ FromRipeDelegatedFile
    \/ New
    \/ LookupV4
    \/ LookupV6

Spec == Init /\ [][Next]_vars


\* ------------------------------------------------------------------------
\* Properties
\* ------------------------------------------------------------------------

SortedByStart(t) == \A i \in 1..(Len(t) - 1) : t[i][1] <= t[i + 1][1]
NonOverlapping(t) == \A i \in 1..(Len(t) - 1) : t[i][2] < t[i + 1][1]

\* The entries of table t that contain address a.
Containing(t, a) == {i \in 1..Len(t) : t[i][1] <= a /\ a <= t[i][2]}

\* The table the last lookup searched.
LookedTable == IF lk.fam = "v4" THEN v4_ranges ELSE v6_ranges

\* A constructor has returned a database and no lookup was made yet.
Built == HasDb /\ lk = NoLookup

\* parse_ripe_delegated has returned (directly or inside a constructor) and
\* no lookup was made yet.
Parsed == ctor \in {"parse", "str", "file"} /\ outcome = "ok" /\ lk = NoLookup

\* from_ripe_delegated_str has returned a database (directly or through
\* from_ripe_delegated_file).
BuiltAtRuntime == ctor \in {"str", "file"} /\ outcome = "ok"

\* C1: on a table sorted by start and non-overlapping, a lookup returns the
\* classification of the one entry containing the address, returns no match
\* when no entry contains it (below the first start, in a gap, above the
\* last end, empty table), and reads no index outside 0..len-1.
C1_LookupCorrect ==
    (lk.fam # "none" /\ SortedByStart(LookedTable) /\ NonOverlapping(LookedTable)) =>
        /\ lk.reads \subseteq 0..(Len(LookedTable) - 1)
        /\ Cardinality(Containing(LookedTable, lk.ip)) <= 1
        /\ IF Containing(LookedTable, lk.ip) = {}
           THEN lk.res = None
           ELSE \A i \in Containing(LookedTable, lk.ip) : lk.res = Some(LookedTable[i][3])

\* A lookup of a gap address between the two entries of a non-overlapping
\* IPv4 table found no match.
C1_Witness ==
    /\ lk.fam = "v4"
    /\ Len(v4_ranges) = 2
    /\ NonOverlapping(v4_ranges)
    /\ v4_ranges[1][2] < lk.ip
    /\ lk.ip < v4_ranges[2][1]
    /\ lk.res = None

\* C2: in every table a constructor built, adjacent entries satisfy
\* entries[i].end < entries[i+1].start.
C2_BuiltNonOverlapping ==
    Built => NonOverlapping(v4_ranges) /\ NonOverlapping(v6_ranges)

\* The lines of the source with their fields.
SourceLines == lines(source.bytes)
FieldsOf(line) == split(line, "|")

\* Line ln is an allocation line of the given family whose start parses to s.
IsLineOf(ln, tag, s) ==
    /\ Len(FieldsOf(ln)) >= 7
    /\ FieldsOf(ln)[3] = tag
    /\ IF tag = IPV4_TAG
       THEN parse_Ipv4Addr(FieldsOf(ln)[4]) = Some(s)
       ELSE parse_Ipv6Addr(FieldsOf(ln)[4]) = Some(s)

\* C3: both tables from_ripe_delegated_str returns are sorted ascending by
\* start, whatever the order of the lines, every IPv4 entry comes from an
\* ipv4 line and every IPv6 entry from an ipv6 line.
C3_SortedByFamily ==
    (BuiltAtRuntime /\ lk = NoLookup) =>
        /\ SortedByStart(v4_ranges)
        /\ SortedByStart(v6_ranges)
        /\ \A i \in 1..Len(v4_ranges) :
              \E k \in 1..Len(SourceLines) :
                 /\ IsLineOf(SourceLines[k], IPV4_TAG, v4_ranges[i][1])
                 /\ v4_ranges[i][3] = GeoInfo(FieldsOf(SourceLines[k])[2])
        /\ \A i \in 1..Len(v6_ranges) :
              \E k \in 1..Len(SourceLines) :
                 /\ IsLineOf(SourceLines[k], IPV6_TAG, v6_ranges[i][1])
                 /\ v6_ranges[i][3] = GeoInfo(FieldsOf(SourceLines[k])[2])

\* A table of two IPv4 entries was built from records given in descending
\* order of start.
C3_Witness ==
    /\ ctor = "str"
    /\ outcome = "ok"
    /\ Len(parsed) = 2
    /\ IsSome(parsed[1].start_v4)
    /\ IsSome(parsed[2].start_v4)
    /\ Unwrap(parsed[1].start_v4) > Unwrap(parsed[2].start_v4)
    /\ Len(v4_ranges) = 2

\* C4: an ipv4 line with count 0 produces no record and no table entry, so
\* no address matches because of it.
C4_ZeroCountDropped ==
    /\ Parsed => \A i \in 1..Len(parsed) : parsed[i].start_v6 = None => parsed[i].count # 0
    /\ (BuiltAtRuntime /\ lk.fam = "v4" /\ IsSome(lk.res)) =>
           \E i \in 1..Len(parsed) :
              /\ IsSome(parsed[i].start_v4)
              /\ parsed[i].count # 0
              /\ Unwrap(parsed[i].start_v4) <= lk.ip

\* C5: parse_ripe_delegated and from_ripe_delegated_str return for every
\* input text, without a panic.
C5_NoPanic == ctor \in {"parse", "str"} => outcome # "panic"

\* C6: every record parse_ripe_delegated returns has exactly one of
\* start_v4 / start_v6 set (a line whose start fails to parse gives none).
C6_ExactlyOneStart ==
    Parsed => \A i \in 1..Len(parsed) : IsSome(parsed[i].start_v4) # IsSome(parsed[i].start_v6)

\* C7: from_ripe_delegated_str turns an IPv4 record (s, c >= 1) into the
\* entry [s, min(s + c - 1, 2^32 - 1)]; a database of one such block matches
\* at s and at its last address with the block's country, and not at s + c.
C7_V4EndSaturates ==
    BuiltAtRuntime =>
        /\ \A i \in 1..Len(parsed) :
              (IsSome(parsed[i].start_v4) /\ parsed[i].count >= 1) =>
                  \E k \in 1..Len(v4_ranges) :
                     v4_ranges[k] =
                        <<Unwrap(parsed[i].start_v4),
                          IF Unwrap(parsed[i].start_v4) + parsed[i].count - 1 > U32Max
                          THEN U32Max
                          ELSE Unwrap(parsed[i].start_v4) + parsed[i].count - 1,
                          GeoInfo(parsed[i].country)>>
        /\ \A k \in 1..Len(v4_ranges) :
              v4_ranges[k][1] <= v4_ranges[k][2] /\ v4_ranges[k][2] <= U32Max
        /\ (lk.fam = "v4" /\ Len(v4_ranges) = 1) =>
              \A i \in 1..Len(parsed) :
                 (IsSome(parsed[i].start_v4) /\ parsed[i].count >= 1) =>
                     LET s == Unwrap(parsed[i].start_v4)
                         c == parsed[i].count
                     IN  /\ lk.ip = s => lk.res = Some(GeoInfo(parsed[i].country))
                         /\ (lk.ip = s + c - 1 \/ (s + c - 1 > U32Max /\ lk.ip = U32Max))
                               => lk.res = Some(GeoInfo(parsed[i].country))
                         /\ lk.ip = s + c => lk.res = None

\* A database of one IPv4 block whose s + c - 1 passes the ceiling matched
\* at the highest address.
C7_Witness ==
    /\ BuiltAtRuntime
    /\ Len(v4_ranges) = 1
    /\ \E i \in 1..Len(parsed) :
          /\ IsSome(parsed[i].start_v4)
          /\ Unwrap(parsed[i].start_v4) + parsed[i].count - 1 > U32Max
    /\ lk.fam = "v4"
    /\ lk.ip = U32Max
    /\ IsSome(lk.res)

\* The address count the format defines for prefix length p.
CountOfPrefix(p) == IF p = 0 THEN U128Max ELSE Pow2(U128Bits - p)

\* The ipv6 lines of the source with a prefix length in 0..128 and a start
\* that parses: <<start, prefix length, country>>.
V6LinesOfSource ==
    {<<Unwrap(parse_Ipv6Addr(FieldsOf(SourceLines[k])[4])),
       Unwrap(parse_u32(FieldsOf(SourceLines[k])[5])),
       FieldsOf(SourceLines[k])[2]>> :
        k \in {j \in 1..Len(SourceLines) :
                  /\ Len(FieldsOf(SourceLines[j])) >= 7
                  /\ ~starts_with(SourceLines[j], "#")
                  /\ ~starts_with(SourceLines[j], "2")
                  /\ FieldsOf(SourceLines[j])[3] = IPV6_TAG
                  /\ IsSome(parse_Ipv6Addr(FieldsOf(SourceLines[j])[4]))
                  /\ IsSome(parse_u32(FieldsOf(SourceLines[j])[5]))
                  /\ Unwrap(parse_u32(FieldsOf(SourceLines[j])[5])) <= U128Bits}}

\* C8: an ipv6 line with prefix length p in 0..128 yields the count
\* 2^(128-p), and 2^128 - 1 for p = 0; the builder stores
\* end = min(start + count - 1, 2^128 - 1), and in a database of that one
\* block every address from start to end matches.
C8_V6PrefixCount ==
    /\ (BuiltAtRuntime /\ lk = NoLookup) =>
          \A b \in V6LinesOfSource :
              /\ \E i \in 1..Len(parsed) :
                    /\ parsed[i].start_v6 = Some(b[1])
                    /\ parsed[i].count = CountOfPrefix(b[2])
                    /\ parsed[i].country = b[3]
              /\ \E k \in 1..Len(v6_ranges) :
                    v6_ranges[k] =
                       <<b[1],
                         IF b[1] + CountOfPrefix(b[2]) - 1 > U128Max
                         THEN U128Max
                         ELSE b[1] + CountOfPrefix(b[2]) - 1,
                         GeoInfo(b[3])>>
    /\ (BuiltAtRuntime /\ lk.fam = "v6" /\ Len(v6_ranges) = 1) =>
          \A i \in 1..Len(parsed) :
              (/\ IsSome(parsed[i].start_v6)
               /\ Unwrap(parsed[i].start_v6) <= lk.ip
               /\ lk.ip <= Unwrap(parsed[i].start_v6) + parsed[i].count - 1)
                  => lk.res = Some(GeoInfo(parsed[i].country))

\* A database of one ipv6 block of prefix length 0 matched at start + 1.
C8_Witness ==
    /\ BuiltAtRuntime
    /\ lk.fam = "v6"
    /\ IsSome(lk.res)
    /\ Len(v6_ranges) = 1
    /\ \E b \in V6LinesOfSource : b[2] = 0 /\ lk.ip = b[1] + 1

\* A line that may produce a record: no comment, no header, at least seven
\* fields, family field ipv4 or ipv6.
Qualifies(line) ==
    /\ ~starts_with(line, "#")
    /\ ~starts_with(line, "2")
    /\ Len(FieldsOf(line)) >= 7
    /\ FieldsOf(line)[3] \in {IPV4_TAG, IPV6_TAG}

QualifyingLines == SelectSeq(SourceLines, Qualifies)

\* C9: only qualifying lines produce records: there are at most as many
\* records as qualifying lines, every record carries the country field of a
\* qualifying line, and the records are those the qualifying lines alone
\* produce.
C9_OnlyQualifyingLines ==
    Parsed =>
        /\ Len(parsed) <= Len(QualifyingLines)
        /\ \A i \in 1..Len(parsed) :
              \E k \in 1..Len(QualifyingLines) :
                 parsed[i].country = FieldsOf(QualifyingLines[k])[2]
        /\ parsed = parse_ripe_delegated(Text(QualifyingLines), FALSE).ranges

\* A text of a header line starting with "2" and one qualifying line was
\* parsed to one record.
C9_Witness ==
    /\ ctor = "parse"
    /\ outcome = "ok"
    /\ Len(SourceLines) = 2
    /\ \E k \in 1..2 : starts_with(SourceLines[k], "2")
    /\ Len(QualifyingLines) = 1
    /\ Len(parsed) = 1

\* C10: from_ripe_delegated_file returns an error only when the source
\* cannot be read, and Ok for every readable file whatever its content.
C10_FileErrOnlyUnreadable ==
    ctor = "file" => (IF source.readable THEN outcome = "ok" ELSE outcome = "err")

\* ------------------------------------------------------------------------
\* Cache file, refresh and calls on a constructed database (src/database.rs)
\* ------------------------------------------------------------------------

V4Line(cc, start, count) == Line7(REGISTRY, cc, IPV4_TAG, V4Text(start), dec_text(count))
V6Line(cc, start, prefix_len) == Line7(REGISTRY, cc, IPV6_TAG, V6Text(start), dec_text(prefix_len))

\* The snapshot compiled into the binary: one block of each family, the
\* IPv6 block reaching the last address.
EmbeddedSnapshot == Text(<<V4Line(US, U32Max - 1, 2), V6Line(US, U128Max - 1, U128Bits - 1)>>)

\* Cache files: two blocks that share a start, an empty file, a prefix
\* length past the width, and bytes that are not UTF-8.
OldSnapshot == Text(<<V4Line(DE, 0, 2), V4Line(GB, 0, 1)>>)
EmptySnapshot == <<>>
PanicSnapshot == Text(<<V6Line(DE, 8, U128Bits + 1)>>)
BadSnapshot == Text(<<<<BadByte>>>>)
CacheContents == {OldSnapshot, EmptySnapshot, PanicSnapshot, BadSnapshot}

\* Response bodies: a new snapshot, and an empty body.
NewSnapshot == Text(<<V4Line(GB, 1, 3), V6Line(DE, 0, U128Bits - 1)>>)
Bodies == {NewSnapshot, EmptySnapshot}

\* The cache_path arguments: one with another extension, one with "tmp".
CachePaths == {Path("ripe", "txt"), Path("ripe", "tmp")}
Paths == CachePaths \cup {with_extension(p, "tmp") : p \in CachePaths}

\* The files: the cache file there was before the run, and the one
\* File::create makes.
FileIds == {"old", "new"}

\* Path::exists.
exists(path) == dir[path] # NoFile

\* The temp path of update_cache_from_url.
tmp_path == with_extension(cache_path, "tmp")

\* The initial states of a run with a cache: the embedded snapshot, a cache
\* path that names a file or none, and no call made yet.
CacheInit ==
    /\ source = [readable |-> TRUE, bytes |-> EmbeddedSnapshot]
    /\ ctor = "none"
    /\ outcome = "none"
    /\ parsed = <<>>
    /\ v4_ranges = <<>>
    /\ v6_ranges = <<>>
    /\ lk = NoLookup
    /\ cache_path \in CachePaths
    /\ std_search \in {"low", "high"}
    /\ \/ /\ dir = [p \in Paths |-> NoFile]
          /\ files = [f \in FileIds |-> <<>>]
       \/ /\ dir = [p \in Paths |-> IF p = cache_path THEN "old" ELSE NoFile]
          /\ \E content \in CacheContents :
                files = [f \in FileIds |-> IF f = "old" THEN content ELSE <<>>]
    /\ upd = UpdIdle
    /\ rd = RdIdle
    /\ call = NoCall
    /\ other = UpdIdle

\* The `?` of a step of update_cache_from_url: the run returns Err.
Fails(step) == upd' = [upd EXCEPT !.pc = "done", !.f = NoFile, !.ret = <<"Err", step>>]

\* The run goes on with the next step.
Goes(step) == upd' = [upd EXCEPT !.pc = step]

\* What a path holds: the bytes of its file, or None.
held(path) == IF exists(path) THEN Some(files[dir[path]]) ELSE None

\* GeoIpDb::update_cache_from_url(cache_path, url) is called.
UpdateCacheFromUrl ==
    /\ upd.pc = "idle"
    /\ upd' = [upd EXCEPT !.pc = "create_dir_all", !.before = held(cache_path)]
    /\ UNCHANGED <<dbvars, cache_path, std_search, dir, files, rd, call, other>>

\* fs::create_dir_all(parent)?
CreateDirAll ==
    /\ upd.pc = "create_dir_all"
    /\ Goes("get") \/ Fails("create_dir_all")
    /\ UNCHANGED <<dbvars, cache_path, std_search, dir, files, rd, call, other>>

\* reqwest::blocking::get(url).map_err(..)?
Get ==
    /\ upd.pc = "get"
    /\ Goes("error_for_status") \/ Fails("get")
    /\ UNCHANGED <<dbvars, cache_path, std_search, dir, files, rd, call, other>>

\* .error_for_status().map_err(..)?
ErrorForStatus ==
    /\ upd.pc = "error_for_status"
    /\ Goes("bytes") \/ Fails("error_for_status")
    /\ UNCHANGED <<dbvars, cache_path, std_search, dir, files, rd, call, other>>

\* resp.bytes().map_err(..)?
RespBytes ==
    /\ upd.pc = "bytes"
    /\ \/ \E body \in Bodies : upd' = [upd EXCEPT !.pc = "create", !.bytes = body]
       \/ Fails("bytes")
    /\ UNCHANGED <<dbvars, cache_path, std_search, dir, files, rd, call, other>>

\* The files in use: those a path names and those a run holds open.
in_use == {dir[p] : p \in Paths} \cup {upd.f, other.f, rd.f}

\* A file that is not in use: "new" as long as it is free.
fresh == IF "new" \notin in_use THEN "new" ELSE CHOOSE f \in FileIds : f \notin in_use

\* The file File::create(path) opens: the one the path names, else a new one.
created(path) == IF exists(path) THEN dir[path] ELSE fresh

\* fs::File::create(&tmp_path)?: the file is created, or truncated if the
\* path names one.
FileCreate ==
    /\ upd.pc = "create"
    /\ \/ /\ upd' = [upd EXCEPT !.pc = "write_all", !.f = created(tmp_path)]
          /\ dir' = [dir EXCEPT ![tmp_path] = created(tmp_path)]
          /\ files' = [files EXCEPT ![created(tmp_path)] = <<>>]
       \/ /\ Fails("create")
          /\ UNCHANGED <<dir, files>>
    /\ UNCHANGED <<dbvars, cache_path, std_search, rd, call, other>>

\* How far the next write of write_all gets: half of the body, then the rest.
next_written(written, len) == IF written = 0 /\ len > 1 THEN len \div 2 ELSE len

\* The byte a file holds where nothing was written below its length.
NulByte == "NUL"

\* The bytes of a file after a write of `bytes[pos+1 .. upto]` through a
\* handle at offset pos: the bytes written replace what was there, a gap
\* below the offset reads as zero bytes, what lies past the write stays.
write_at(content, bytes, pos, upto) ==
    [i \in 1..(IF Len(content) > upto THEN Len(content) ELSE upto) |->
        IF i > pos /\ i <= upto THEN bytes[i]
        ELSE IF i <= Len(content) THEN content[i]
        ELSE NulByte]

\* f.write_all(&bytes)?: one write at the handle's offset, or the end of
\* the loop.
WriteAll ==
    /\ upd.pc = "write_all"
    /\ IF upd.pos < Len(upd.bytes)
       THEN \/ /\ files' = [files EXCEPT ![upd.f] =
                               write_at(files[upd.f], upd.bytes, upd.pos,
                                        next_written(upd.pos, Len(upd.bytes)))]
               /\ upd' = [upd EXCEPT !.pos = next_written(upd.pos, Len(upd.bytes))]
            \/ /\ Fails("write_all")
               /\ UNCHANGED files
       ELSE /\ Goes("sync_all")
            /\ UNCHANGED files
    /\ UNCHANGED <<dbvars, cache_path, std_search, dir, rd, call, other>>

\* f.sync_all()?, and the file is closed at the end of the block.
SyncAll ==
    /\ upd.pc = "sync_all"
    /\ \/ upd' = [upd EXCEPT !.pc = "exists", !.f = NoFile]
       \/ Fails("sync_all")
    /\ UNCHANGED <<dbvars, cache_path, std_search, dir, files, rd, call, other>>

\* if cache_path.exists()
PathExists ==
    /\ upd.pc = "exists"
    /\ Goes(IF exists(cache_path) THEN "remove_file" ELSE "rename")
    /\ UNCHANGED <<dbvars, cache_path, std_search, dir, files, rd, call, other>>

\* let _ = fs::remove_file(cache_path): the entry goes, or the error is dropped.
RemoveFile ==
    /\ upd.pc = "remove_file"
    /\ Goes("rename")
    /\ dir' = [dir EXCEPT ![cache_path] = NoFile] \/ UNCHANGED dir
    /\ UNCHANGED <<dbvars, cache_path, std_search, files, rd, call, other>>

\* The directory after rename(from, to).
renamed(from, to) ==
    [p \in Paths |-> IF p = to THEN dir[from] ELSE IF p = from THEN NoFile ELSE dir[p]]

\* fs::rename(&tmp_path, cache_path)?, then Ok(bytes.len() as u64).
Rename ==
    /\ upd.pc = "rename"
    /\ \/ /\ exists(tmp_path)
          /\ dir' = renamed(tmp_path, cache_path)
          /\ upd' = [upd EXCEPT !.pc = "done", !.ret = <<"Ok", Len(upd.bytes)>>]
       \/ /\ Fails("rename")
          /\ UNCHANGED dir
    /\ UNCHANGED <<dbvars, cache_path, std_search, files, rd, call, other>>

\* What the caller gets when fs::read_to_string returned Err:
\* from_ripe_delegated_file passes the error on, from_cache_or_embedded
\* returns GeoIpDb::new().
ReadFailed(fn) ==
    IF fn = "file"
    THEN /\ outcome' = "err"
         /\ UNCHANGED <<v4_ranges, v6_ranges>>
    ELSE \E overflow_checks \in BOOLEAN :
            Embedded(generated_data(source.bytes, overflow_checks))

\* from_ripe_delegated_file(cache_path), called directly ("file") or by
\* from_cache_or_embedded ("cache"): fs::read_to_string opens the file.
ReadToStringOpen ==
    /\ ctor = "none"
    /\ rd.pc = "idle"
    /\ \E fn \in {"file", "cache"} :
          IF exists(cache_path)
          THEN /\ rd' = [rd EXCEPT !.pc = "opened", !.fn = fn, !.f = dir[cache_path],
                                   !.after_ok = (upd.pc = "done" /\ upd.ret[1] = "Ok")]
               /\ UNCHANGED <<ctor, outcome, v4_ranges, v6_ranges>>
          ELSE /\ rd' = [rd EXCEPT !.pc = "done", !.fn = fn,
                                   !.after_ok = (upd.pc = "done" /\ upd.ret[1] = "Ok")]
               /\ ctor' = fn
               /\ ReadFailed(fn)
    /\ UNCHANGED <<source, parsed, lk, cache_path, std_search, dir, files, upd, call, other>>

\* fs::read_to_string reads the open file to its end; the constructor
\* then builds the database from the text, or handles the error.
ReadToStringRead ==
    /\ rd.pc = "opened"
    /\ rd' = [rd EXCEPT !.pc = "done", !.f = NoFile, !.content = Some(files[rd.f])]
    /\ ctor' = rd.fn
    /\ IF valid_utf8(files[rd.f])
       THEN \E overflow_checks \in BOOLEAN : BuiltFromStr(files[rd.f], overflow_checks)
       ELSE /\ ReadFailed(rd.fn)
            /\ UNCHANGED parsed
    /\ UNCHANGED <<source, lk, cache_path, std_search, dir, files, upd, call, other>>

\* A binary search that finds the first of several entries with the key in
\* the first call and the last of them in later calls.
std_found_by_call(ranges, key, search) ==
    CHOOSE f \in binary_search_by_key(ranges, key) :
        \A g \in binary_search_by_key(ranges, key) :
            IF call.op = "none" THEN f[2] <= g[2] ELSE f[2] >= g[2]

\* The result of binary_search_by_key in this build: of several entries
\* with the key, the first or the last.
std_found(ranges, key, search) ==
    CHOOSE f \in binary_search_by_key(ranges, key) :
        \A g \in binary_search_by_key(ranges, key) :
            IF search = "low" THEN f[2] <= g[2] ELSE f[2] >= g[2]

V4(n) == <<"V4", n>>
V6(n) == <<"V6", n>>
IpAddrs == {V4(n) : n \in 0..U32Max} \cup {V6(n) : n \in 0..U128Max}

\* GeoIpDb::lookup: the match on the address family.
lookup(v4, v6, ip, search) ==
    IF ip[1] = "V4"
    THEN lookup_v4_arm(v4, ip[2], std_found(v4, ip[2], search)).res
    ELSE lookup_v6(v6, ip[2]).res

\* The same with true for an address that has no entry.
map_is_eu_or_true(found) == IF IsSome(found) THEN Unwrap(found).is_eu ELSE TRUE

\* .map(|info| info.is_eu).unwrap_or(false)
map_is_eu_or_false(found) == IF IsSome(found) THEN Unwrap(found).is_eu ELSE FALSE

\* GeoIpDb::is_eu.
is_eu(v4, v6, ip, search) == map_is_eu_or_false(lookup(v4, v6, ip, search))

\* .iter().filter(|(_, _, info)| info.is_eu).count()
eu_count(ranges) == Cardinality({i \in 1..Len(ranges) : ranges[i][3].is_eu})

\* DbStats from the four counts.
DbStats(total_v4, total_v6, eu_v4, eu_v6) ==
    [total_v4_ranges |-> total_v4, total_v6_ranges |-> total_v6,
     eu_v4_ranges |-> eu_v4, eu_v6_ranges |-> eu_v6,
     non_eu_v4_ranges |-> total_v4 - eu_v4, non_eu_v6_ranges |-> total_v6 - eu_v6]

\* GeoIpDb::stats.
stats(v4, v6) == DbStats(Len(v4), Len(v6), eu_count(v4), eu_count(v6))

\* A constructor called on the cache path returned a database.
HasInstance == ctor \in {"file", "cache"} /\ outcome = "ok"

\* A run makes one call on the database and may make it again: the calls
\* take &self, so a call finds the database every other call left.
CanCall(op, ip) == HasInstance /\ (call.op = "none" \/ (call.op = op /\ call.ip = ip))

\* The record of a call op(ip) that returned ret; the database is &self.
Called(op, ip, ret) ==
    /\ CanCall(op, ip)
    /\ call' = [op |-> op, ip |-> ip, ret |-> ret, again |-> call.op # "none"]
    /\ UNCHANGED <<dbvars, cache_path, std_search, dir, files, upd, rd, other>>

\* db.lookup_v4(ip).
CallLookupV4 ==
    /\ HasInstance
    /\ \E n \in 0..U32Max :
          Called("lookup_v4", V4(n), lookup(v4_ranges, v6_ranges, V4(n), std_search))

\* db.lookup_v6(ip).
CallLookupV6 ==
    /\ HasInstance
    /\ \E n \in 0..U128Max :
          Called("lookup_v6", V6(n), lookup(v4_ranges, v6_ranges, V6(n), std_search))

\* db.lookup(ip).
CallLookup ==
    /\ HasInstance
    /\ \E ip \in IpAddrs : Called("lookup", ip, lookup(v4_ranges, v6_ranges, ip, std_search))

\* db.is_eu(ip).
CallIsEu ==
    /\ HasInstance
    /\ \E ip \in IpAddrs : Called("is_eu", ip, is_eu(v4_ranges, v6_ranges, ip, std_search))

\* db.stats().
CallStats ==
    /\ HasInstance
    /\ Called("stats", V4(0), stats(v4_ranges, v6_ranges))

CacheNext ==
    \/ UpdateCacheFromUrl
    \/ CreateDirAll
    \/ Get
    \/ ErrorForStatus
    \/ RespBytes
    \/ FileCreate
    \/ WriteAll
    \/ SyncAll
    \/ PathExists
    \/ RemoveFile
    \/ Rename
    \/ ReadToStringOpen
    \/ ReadToStringRead
    \/ CallLookupV4
    \/ CallLookupV6
    \/ CallLookup
    \/ CallIsEu
    \/ CallStats

CacheSpec == CacheInit /\ [][CacheNext]_vars

\* ------------------------------------------------------------------------
\* Properties of the cache functions
\* ------------------------------------------------------------------------

\* fs::read_to_string returned Ok: the file was opened and held UTF-8.
ReadOk == IsSome(rd.content) /\ valid_utf8(Unwrap(rd.content))

\* The instance holds the tables db holds.
HoldsTables(db) == v4_ranges = db.v4_ranges /\ v6_ranges = db.v6_ranges

\* The instance holds the tables GeoIpDb::new() builds from the constants g.
HoldsEmbedded(g) ==
    v4_ranges = new_ranges(g.IPV4_RANGES) /\ v6_ranges = new_ranges(g.IPV6_RANGES)

\* C11: from_cache_or_embedded always returns a database: the one built
\* from the cache file when from_ripe_delegated_file succeeds, and on any
\* failure of that call exactly the database GeoIpDb::new() returns.
C11_CacheOrEmbedded ==
    ctor = "cache" =>
        /\ outcome = "ok"
        /\ IF ReadOk
           THEN HoldsTables(from_ripe_delegated_str(Unwrap(rd.content), FALSE))
           ELSE HoldsEmbedded(generated_data(source.bytes, FALSE))

\* A step in which fs::read_to_string reads the file it opened.
ReadStep == rd.pc = "opened" /\ rd'.pc = "done"

\* C12: a reader of the cache file never reads a partially-written
\* snapshot: the file it reads is not one the update run has open for
\* writing, and holds a whole previous snapshot or the whole body.
C12_NoPartialRead ==
    [][ReadStep => /\ upd.f # rd.f
                   /\ files[rd.f] \in CacheContents \cup {upd.bytes}]_vars

\* The same as C12 for a cache path that is not its own temp path.
NoPartialReadUnlessAliased ==
    [][(ReadStep /\ tmp_path # cache_path)
          => /\ upd.f # rd.f
             /\ files[rd.f] \in CacheContents \cup {upd.bytes}]_vars

\* update_cache_from_url returned.
Returned_Err == upd.pc = "done" /\ upd.ret[1] = "Err"
Returned_Ok == upd.pc = "done" /\ upd.ret[1] = "Ok"

\* C13: if update_cache_from_url returns an error, at whichever step, a
\* cache file that existed before the call still exists with the content
\* it had; the cache differs from before only when the call returned Ok.
C13_ErrKeepsCache ==
    /\ (Returned_Err /\ IsSome(upd.before)) => held(cache_path) = upd.before
    /\ (upd.pc = "done" /\ held(cache_path) # upd.before) => Returned_Ok

\* A load of the cache that began after the update returned Ok has ended
\* with the body read and, unless the parser panicked, its tables built.
LoadedNew ==
    (rd.after_ok /\ rd.pc = "done") =>
        /\ rd.content = Some(upd.bytes)
        /\ outcome = "ok" => /\ valid_utf8(upd.bytes)
                             /\ HoldsTables(from_ripe_delegated_str(upd.bytes, FALSE))

\* C14: after update_cache_from_url returns Ok(n) the cache file holds
\* exactly the response body, n is the body's length, the temp file no
\* longer exists, and a database loaded from the cache afterwards is built
\* from the body.
C14_OkReplacesCache ==
    Returned_Ok =>
        /\ held(cache_path) = Some(upd.bytes)
        /\ upd.ret[2] = Len(upd.bytes)
        /\ ~exists(tmp_path)
        /\ LoadedNew

\* The same as C14 without the temp file's absence.
OkReplacesCacheContent ==
    Returned_Ok =>
        /\ held(cache_path) = Some(upd.bytes)
        /\ upd.ret[2] = Len(upd.bytes)
        /\ tmp_path # cache_path => ~exists(tmp_path)
        /\ LoadedNew

\* What lookup returns for the address of the last call.
LookupOfCall == lookup(v4_ranges, v6_ranges, call.ip, std_search)

\* C15: is_eu(ip) is false for every address for which lookup(ip) returns
\* no match, on an empty database too, and otherwise the is_eu flag of the
\* entry lookup(ip) returns.
C15_IsEuDefault ==
    call.op = "is_eu" =>
        /\ call.ret \in BOOLEAN
        /\ LookupOfCall = None => call.ret = FALSE
        /\ LookupOfCall # None => call.ret = Unwrap(LookupOfCall).is_eu

\* is_eu was called on an empty database.
C15_Witness ==
    /\ call.op = "is_eu"
    /\ v4_ranges = <<>> /\ v6_ranges = <<>>
    /\ LookupOfCall = None

\* ------------------------------------------------------------------------
\* Classification of country strings
\* ------------------------------------------------------------------------

\* The codes each arm of determine_region lists.
EuropeNonEuCodes == { <<"G", "B">>, <<"N", "O">>, <<"C", "H">>, <<"I", "S">>, <<"L", "I">> }
EasternEuropeCodes == { <<"R", "U">>, <<"U", "A">>, <<"B", "Y">>, <<"M", "D">> }
TurkeyCodes == { <<"T", "R">> }
MiddleEastCodes == { <<"I", "L">>, <<"P", "S">> }
NorthAfricaCodes == { <<"E", "G">>, <<"T", "N">>, <<"M", "A">>, <<"D", "Z">> }
CentralAsiaCodes ==
    { <<"K", "Z">>, <<"U", "Z">>, <<"T", "M">>, <<"K", "G">>, <<"T", "J">> }
GulfStatesCodes ==
    { <<"A", "E">>, <<"S", "A">>, <<"Q", "A">>, <<"K", "W">>, <<"B", "H">>, <<"O", "M">> }

\* The bucket of every listed code that is not an EU code.
Buckets ==
    { <<EuropeNonEuCodes, Region.EuropeNonEu>>, <<EasternEuropeCodes, Region.EasternEurope>>,
      <<TurkeyCodes, Region.Turkey>>, <<MiddleEastCodes, Region.MiddleEast>>,
      <<NorthAfricaCodes, Region.NorthAfrica>>, <<CentralAsiaCodes, Region.CentralAsia>>,
      <<GulfStatesCodes, Region.GulfStates>> }

ListedCodes == EU_COUNTRIES \cup UNION {b[1] : b \in Buckets}

\* Country fields that are no listed code: another code, the empty field,
\* one letter, three letters, lower case, and "??".
UnlistedStrings ==
    { US, <<>>, <<"D">>, <<"D", "E", "U">>, <<"d", "e">>, <<"?", "?">>, <<"X", "X">> }

CountryStrings == ListedCodes \cup UnlistedStrings

\* A snapshot of one IPv4 block of one address, for each country string.
ClassifyInit ==
    /\ source \in {[readable |-> TRUE, bytes |-> Text(<<V4Line(cc, 0, 1)>>)] :
                      cc \in CountryStrings}
    /\ ctor = "none"
    /\ outcome = "none"
    /\ parsed = <<>>
    /\ v4_ranges = <<>>
    /\ v6_ranges = <<>>
    /\ lk = NoLookup
    /\ NoCache

ClassifySpec == ClassifyInit /\ [][Next]_vars

\* The country field of the first line of the source.
SourceCountry == FieldsOf(SourceLines[1])[2]

\* The classification of the one entry a constructor built.
Classified == v4_ranges[1][3]

\* C16: classification is a total function of the country string: is_eu
\* holds exactly for the 27 EU codes, the region is EuropeanUnion exactly
\* when is_eu holds, each listed non-EU code has its bucket, and every other
\* string has Other and is_eu false; no constructor ends in an error.
C16_ClassificationTotal ==
    /\ Cardinality(EU_COUNTRIES) = 27
    /\ ctor \in {"new", "str", "file"} =>
          /\ outcome = "ok"
          /\ Len(v4_ranges) = 1
          /\ Classified.is_eu = (SourceCountry \in EU_COUNTRIES)
          /\ (Classified.region = Region.EuropeanUnion) = Classified.is_eu
          /\ \A b \in Buckets : SourceCountry \in b[1] => Classified.region = b[2]
          /\ SourceCountry \notin ListedCodes =>
                Classified.region = Region.Other /\ ~Classified.is_eu

\* A database was built from a block of an EU country.
C16_Witness ==
    /\ ctor \in {"new", "str", "file"}
    /\ SourceCountry \in EU_COUNTRIES
    /\ Len(v4_ranges) = 1
    /\ Classified.is_eu
    /\ Classified.region = Region.EuropeanUnion

\* ------------------------------------------------------------------------
\* Calls on a constructed database
\* ------------------------------------------------------------------------

\* A step that is a call of lookup_v4, lookup_v6, lookup, is_eu or stats.
CallStep == call'.op # call.op \/ call'.again # call.again

\* A step of update_cache_from_url.
RefreshStep == upd'.pc # upd.pc \/ files' # files

C18_BuildEqualsRuntime ==
    (ctor = "new" /\ outcome = "ok") =>
        HoldsTables(from_ripe_delegated_str(source.bytes, FALSE))

\* ------------------------------------------------------------------------
\* lookup_v4 against lookup_v6
\* ------------------------------------------------------------------------

\* Every entry of table t has start <= end.
StartLeqEnd(t) == \A i \in 1..Len(t) : t[i][1] <= t[i][2]

\* C19: on a table sorted by start with start <= end in every entry,
\* lookup_v4 and lookup_v6 return the same value for every address: what
\* the one returned for the last lookup is what the other returns on the
\* same table.
C19_V4EqualsV6 ==
    (lk.fam # "none" /\ SortedByStart(LookedTable) /\ StartLeqEnd(LookedTable)) =>
        /\ lk.res = lookup_v6(LookedTable, lk.ip).res
        /\ \A r \in lookup_v4(LookedTable, lk.ip) : r.res = lk.res

\* The same on tables whose starts are strictly ascending.
StrictlySorted(t) == \A i \in 1..(Len(t) - 1) : t[i][1] < t[i + 1][1]
V4EqualsV6OnDistinctStarts ==
    (lk.fam # "none" /\ StrictlySorted(LookedTable) /\ StartLeqEnd(LookedTable)) =>
        /\ lk.res = lookup_v6(LookedTable, lk.ip).res
        /\ \A r \in lookup_v4(LookedTable, lk.ip) : r.res = lk.res

\* ------------------------------------------------------------------------
\* Soundness of lookup on built tables
\* ------------------------------------------------------------------------

\* A classification the last lookup returned belongs to an entry that
\* contains the address.
LookupSound ==
    (lk.fam # "none" /\ IsSome(lk.res)) =>
        \E i \in Containing(LookedTable, lk.ip) : LookedTable[i][3] = Unwrap(lk.res)

\* C20: on every table a constructor builds, overlapping or duplicate
\* starts included, a classification that lookup_v4 or lookup_v6 returns
\* for an address belongs to an entry containing the address, and every
\* entry of a built table has start <= end.
C20_SoundOnBuiltTables ==
    HasDb =>
        /\ LookupSound
        /\ StartLeqEnd(v4_ranges)
        /\ StartLeqEnd(v6_ranges)

\* The same for the tables from_ripe_delegated_str builds.
SoundOnRuntimeTables ==
    /\ HasDb => LookupSound
    /\ BuiltAtRuntime => StartLeqEnd(v4_ranges) /\ StartLeqEnd(v6_ranges)

\* ------------------------------------------------------------------------
\* The cache path during a refresh
\* ------------------------------------------------------------------------

\* update_cache_from_url was called and has not returned.
Refreshing == upd.pc \notin {"idle", "done"}

\* A load of the cache path ended with fs::read_to_string finding no file.
FoundMissing == rd.pc = "done" /\ rd.content = None

\* C21: once the cache file exists, at every step of an
\* update_cache_from_url run the cache path exists and holds the whole
\* previous snapshot or the whole new one, and no load of the cache path
\* finds it missing (so from_cache_or_embedded does not fall back to the
\* embedded data because of the refresh).
C21_CacheAlwaysPresent ==
    IsSome(upd.before) =>
        /\ Refreshing => /\ exists(cache_path)
                         /\ held(cache_path) \in {upd.before, Some(upd.bytes)}
        /\ ~FoundMissing

\* The same for the steps before fs::File::create, which touch no file.
CachePresentBeforeCreate ==
    (IsSome(upd.before) /\ upd.pc \in {"create_dir_all", "get", "error_for_status", "bytes", "create"})
        => held(cache_path) = upd.before

\* The window of C21: the cache path names no file between remove_file and
\* rename, though its temp path is another path and holds the whole body.
CacheMissingBeforeRename ==
    /\ IsSome(upd.before)
    /\ tmp_path # cache_path
    /\ upd.pc = "rename"
    /\ ~exists(cache_path)
    /\ held(tmp_path) = Some(upd.bytes)

\* A from_cache_or_embedded call made in that window returned the embedded
\* data.
FellBackInWindow ==
    /\ CacheMissingBeforeRename
    /\ FoundMissing
    /\ ctor = "cache"
    /\ outcome = "ok"

\* ------------------------------------------------------------------------
\* Two concurrent update_cache_from_url calls on one cache_path
\* ------------------------------------------------------------------------

\* The initial states of two calls: a cache path that names the previous
\* snapshot or no file, and neither call made yet.
RaceInit ==
    /\ source = [readable |-> TRUE, bytes |-> EmbeddedSnapshot]
    /\ ctor = "none"
    /\ outcome = "none"
    /\ parsed = <<>>
    /\ v4_ranges = <<>>
    /\ v6_ranges = <<>>
    /\ lk = NoLookup
    /\ cache_path \in CachePaths
    /\ std_search = "low"
    /\ \/ dir = [p \in Paths |-> NoFile]
       \/ dir = [p \in Paths |-> IF p = cache_path THEN "old" ELSE NoFile]
    /\ files = [f \in FileIds |-> IF f = "old" /\ exists(cache_path) THEN OldSnapshot ELSE <<>>]
    /\ upd = UpdIdle
    /\ rd = RdIdle
    /\ call = NoCall
    /\ other = UpdIdle

\* The scheduler goes on with the other call: the steps of
\* update_cache_from_url then are that call's.
Switch ==
    /\ upd # other
    /\ upd' = other
    /\ other' = upd
    /\ UNCHANGED <<dbvars, cache_path, std_search, dir, files, rd, call>>

RaceNext ==
    \/ UpdateCacheFromUrl
    \/ CreateDirAll
    \/ Get
    \/ ErrorForStatus
    \/ RespBytes
    \/ FileCreate
    \/ WriteAll
    \/ SyncAll
    \/ PathExists
    \/ RemoveFile
    \/ Rename
    \/ Switch

RaceSpec == RaceInit /\ [][RaceNext]_vars

\* Both calls returned Ok.
BothOk == Returned_Ok /\ other.pc = "done" /\ other.ret[1] = "Ok"

\* The cache file holds the whole body of one of the two downloads.
HoldsOneBody == held(cache_path) \in {Some(upd.bytes), Some(other.bytes)}

\* A step in which fs::rename puts the temp file in place.
RenamedStep == upd.pc = "rename" /\ upd'.pc = "done" /\ upd'.ret[1] = "Ok"

\* The other call holds the temp file open: it has created or truncated
\* it and has not finished writing it.
OtherWritesTemp == other.f # NoFile /\ other.f = dir[tmp_path]

\* C22: of two concurrent update_cache_from_url calls on one cache_path,
\* every interleaving in which both return Ok ends with the cache file
\* holding the whole body of one of the two downloads, and no call renames
\* into place a temp file the other call has truncated or is still writing.
C22_ConcurrentUpdates ==
    /\ [](BothOk => HoldsOneBody)
    /\ [][RenamedStep => ~OtherWritesTemp]_vars

\* The first half of C22 for a cache path that is not its own temp path.
BothOkOneBodyUnlessAliased == (BothOk /\ tmp_path # cache_path) => HoldsOneBody

\* A call returned Ok after renaming a temp file that is another path than
\* the cache path, while the other call has that file open, the cache path
\* now naming a file that does not hold the whole body.
RenamedUnderWriter ==
    /\ tmp_path # cache_path
    /\ Returned_Ok
    /\ other.f # NoFile
    /\ other.f = dir[cache_path]
    /\ held(cache_path) # Some(upd.bytes)

\* ------------------------------------------------------------------------
\* The flags and the stored country code
\* ------------------------------------------------------------------------

\* GeoInfo::country_code_str: the two stored bytes as text, "??" when they
\* are not UTF-8.
country_code_str(info) ==
    IF valid_utf8(info.country_code) THEN info.country_code ELSE <<"?", "?">>

\* The flags of a GeoInfo are those of its stored code.
FlagsOfStoredCode(info) ==
    /\ info.is_eu = (country_code_str(info) \in EU_COUNTRIES)
    /\ info.region = determine_region(country_code_str(info))

\* C23: for every entry of a table built by GeoIpDb::new or
\* from_ripe_delegated_str, is_eu is true exactly when country_code_str()
\* is an EU code and region is the bucket of that stored code, also when
\* the source country field is longer or shorter than two characters.
C23_FlagsAgreeWithStoredCode ==
    (ctor \in {"new", "str"} /\ outcome = "ok") =>
        /\ \A i \in 1..Len(v4_ranges) : FlagsOfStoredCode(v4_ranges[i][3])
        /\ \A i \in 1..Len(v6_ranges) : FlagsOfStoredCode(v6_ranges[i][3])

\* The same for country fields of two characters or fewer, which cc2
\* stores whole or replaces by "??".
FlagsAgreeUpToTwoChars ==
    (ctor \in {"new", "str"} /\ outcome = "ok" /\ Len(SourceCountry) <= 2) =>
        /\ \A i \in 1..Len(v4_ranges) : FlagsOfStoredCode(v4_ranges[i][3])
        /\ \A i \in 1..Len(v6_ranges) : FlagsOfStoredCode(v6_ranges[i][3])

\* A country field of three characters that starts with an EU code was
\* stored as that code with is_eu false and region Other.
TruncatedToEuCode ==
    /\ ctor \in {"new", "str"}
    /\ outcome = "ok"
    /\ Len(SourceCountry) = 3
    /\ Len(v4_ranges) = 1
    /\ country_code_str(Classified) \in EU_COUNTRIES
    /\ ~Classified.is_eu
    /\ Classified.region = Region.Other

====
